---- MODULE Spec2Model ----
(***************************************************************************)
(* Verilog Byte Analyzer (src/Verilog_Byte_Analyzer.py): the literal       *)
(* parser, the byte decomposer, the alignment renderer, the bit-range      *)
(* extractor, the global field map with its two import paths, and the      *)
(* CLI and GUI sessions that drive them.                                   *)
(*                                                                         *)
(* Representation.  A Python int >= 0 is a little-endian sequence of bits  *)
(* without a most-significant zero (0 is <<>>): Values are of unbounded    *)
(* width in the program and exceed the integers of the model checker.      *)
(* A Python str is a sequence of one-character strings.  Python's None is  *)
(* the value None below.                                                   *)
(***************************************************************************)
EXTENDS Integers, Sequences, FiniteSets, TLC

(* ------------------------------ bounds -------------------------------- *)
\* longest literal text handed to the parser harness
MaxLen == 4
\* largest bit index handed to the extractor harness
MaxBit == 7
\* widest value (in bits) handed to the extractor harness
MaxValBits == 6
\* longest byte pattern the decomposer and renderer harness values are built from
MaxBytes == 5

(* ------------------------- Python builtins ---------------------------- *)
None == <<-1>>

Min(a, b) == IF a <= b THEN a ELSE b

Max(a, b) == IF a >= b THEN a ELSE b

Abs(a) == IF a < 0 THEN -a ELSE a

\* s[i:j] of a list or a str: zero-based, half-open, clipped to the sequence
Slice(s, i, j) == SubSeq(s, Min(i, Len(s)) + 1, Min(j, Len(s)))

(* --------------------------- Python ints ------------------------------ *)
Zero == <<>>

One == <<1>>

RECURSIVE Norm(_)
Norm(s) == IF s = <<>> \/ s[Len(s)] = 1 THEN s ELSE Norm(SubSeq(s, 1, Len(s) - 1))

RECURSIVE FromInt(_)
FromInt(n) == IF n = 0 THEN <<>> ELSE <<n % 2>> \o FromInt(n \div 2)

RECURSIVE ToInt(_)
ToInt(v) == IF v = <<>> THEN 0 ELSE v[1] + 2 * ToInt(Tail(v))

Bit(v, i) == IF i + 1 <= Len(v) THEN v[i + 1] ELSE 0

\* v >> n
Shr(v, n) == IF n >= Len(v) THEN <<>> ELSE SubSeq(v, n + 1, Len(v))

\* v << n
Shl(v, n) == IF v = <<>> THEN <<>> ELSE [i \in 1..n |-> 0] \o v

\* a & b
BitAnd(a, b) == Norm([i \in 1..Min(Len(a), Len(b)) |-> a[i] * b[i]])

\* a | b
BitOr(a, b) == [i \in 1..Max(Len(a), Len(b)) |-> Max(Bit(a, i - 1), Bit(b, i - 1))]

\* v - 1, for v > 0: the lowest set bit is cleared and the bits below it are set
Dec(v) ==
    LET k == CHOOSE i \in 1..Len(v) : v[i] = 1 /\ \A j \in 1..(i - 1) : v[j] = 0
    IN Norm([i \in 1..Len(v) |-> IF i < k THEN 1 ELSE IF i = k THEN 0 ELSE v[i]])

\* a + b, by ripple carry
RECURSIVE AddCarry(_, _, _)
AddCarry(a, b, c) ==
    IF a = <<>> /\ b = <<>>
    THEN (IF c = 1 THEN <<1>> ELSE <<>>)
    ELSE LET t == Bit(a, 0) + Bit(b, 0) + c
         IN <<t % 2>> \o AddCarry(Shr(a, 1), Shr(b, 1), t \div 2)

BigAdd(a, b) == AddCarry(a, b, 0)

\* f"{v:0<width>b}": most significant bit first, zero-padded to at least width
Format0b(v, width) ==
    LET n == Max(width, Len(v))
    IN [j \in 1..n |-> IF Bit(v, n - j) = 1 THEN "1" ELSE "0"]

(* --------------------------- Python strs ------------------------------ *)
Digits == {"0", "1", "2", "3", "4", "5", "6", "7", "8", "9"}

HexLetters == {"a", "b", "c", "d", "e", "f"}

UpperHexLetters == {"A", "B", "C", "D", "E", "F"}

\* str.lower() on the letters the literals use
LowerChar(c) ==
    CASE c = "A" -> "a" [] c = "B" -> "b" [] c = "C" -> "c" [] c = "D" -> "d"
      [] c = "E" -> "e" [] c = "F" -> "f" [] c = "H" -> "h" [] c = "R" -> "r"
      [] c = "Q" -> "q" [] OTHER -> c

lower(s) == [i \in 1..Len(s) |-> LowerChar(s[i])]

RECURSIVE lstrip(_)
lstrip(s) == IF s # <<>> /\ s[1] = " " THEN lstrip(Tail(s)) ELSE s

RECURSIVE rstrip(_)
rstrip(s) == IF s # <<>> /\ s[Len(s)] = " " THEN rstrip(SubSeq(s, 1, Len(s) - 1)) ELSE s

strip(s) == rstrip(lstrip(s))

\* str.split(): the maximal runs of non-blank characters, in order
RECURSIVE split_from(_, _, _)
split_from(s, cur, acc) ==
    IF s = <<>>
    THEN (IF cur = <<>> THEN acc ELSE Append(acc, cur))
    ELSE IF s[1] = " "
         THEN split_from(Tail(s), <<>>, IF cur = <<>> THEN acc ELSE Append(acc, cur))
         ELSE split_from(Tail(s), Append(cur, s[1]), acc)

split(s) == split_from(s, <<>>, <<>>)

\* str.replace(c, "")
remove_char(s, c) == SelectSeq(s, LAMBDA x : x # c)

\* str.isdigit(), and re.fullmatch(r'[set]+', s)
all_in(s, set) == s # <<>> /\ \A i \in 1..Len(s) : s[i] \in set

\* the number of consecutive characters of `set` in s from (one-based) index i
RECURSIVE RunLen(_, _, _)
RunLen(s, i, set) ==
    IF i >= 1 /\ i <= Len(s) /\ s[i] \in set THEN 1 + RunLen(s, i + 1, set) ELSE 0

DigitValue(c) ==
    CASE c = "0" -> 0 [] c = "1" -> 1 [] c = "2" -> 2 [] c = "3" -> 3
      [] c = "4" -> 4 [] c = "5" -> 5 [] c = "6" -> 6 [] c = "7" -> 7
      [] c = "8" -> 8 [] c = "9" -> 9 [] c = "a" -> 10 [] c = "b" -> 11
      [] c = "c" -> 12 [] c = "d" -> 13 [] c = "e" -> 14 [] c = "f" -> 15

\* int(s, 16) and int(s, 2): each digit shifts the accumulator by its bits
RECURSIVE int_pow2(_, _, _)
int_pow2(s, bits, acc) ==
    IF s = <<>> THEN acc
    ELSE int_pow2(Tail(s), bits, BitOr(Shl(acc, bits), FromInt(DigitValue(s[1]))))

\* int(s): acc * 10 + digit
RECURSIVE int_dec(_, _)
int_dec(s, acc) ==
    IF s = <<>> THEN acc
    ELSE int_dec(Tail(s), BigAdd(BigAdd(Shl(acc, 3), Shl(acc, 1)), FromInt(DigitValue(s[1]))))

(* ------------------------- parse_by_mode ------------------------------ *)
NoMatch == <<"NoMatch">>

\* A match of (?:\d+)?'<marker>([set]+) that starts at index i, as group(1).
\* \d+ is greedy; giving digits back cannot help, since the next character
\* must be the quote; the group is greedy and nothing follows it.
MatchAt(s, i, marker, set) ==
    LET j == i + RunLen(s, i, Digits)
        g == RunLen(s, j + 2, set)
    IN IF j + 1 <= Len(s) /\ s[j] = "'" /\ s[j + 1] = marker /\ g >= 1
       THEN SubSeq(s, j + 2, j + 1 + g)
       ELSE NoMatch

\* re.search: the match at the leftmost index that has one
re_search(s, marker, set) ==
    LET starts == {i \in 1..Len(s) : MatchAt(s, i, marker, set) # NoMatch}
    IN IF starts = {} THEN NoMatch
       ELSE MatchAt(s, CHOOSE i \in starts : \A k \in starts : i <= k, marker, set)

parse_hex(input_str) ==
    LET match == re_search(input_str, "h", Digits \cup HexLetters \cup UpperHexLetters \cup {"_"})
        hex_digits == remove_char(IF match # NoMatch THEN match ELSE input_str, "_")
    IN IF all_in(hex_digits, Digits \cup HexLetters \cup UpperHexLetters)
       THEN int_pow2(lower(hex_digits), 4, Zero)
       ELSE None

parse_dec(input_str) ==
    IF all_in(input_str, Digits) THEN int_dec(input_str, Zero) ELSE None

parse_bin(input_str) ==
    LET match == re_search(input_str, "b", {"0", "1", "_"})
        bin_digits == remove_char(IF match # NoMatch THEN match ELSE input_str, "_")
    IN IF all_in(bin_digits, {"0", "1"})
       THEN int_pow2(bin_digits, 1, Zero)
       ELSE None

parse_by_mode(raw, mode) ==
    LET input_str == lower(strip(raw))
    IN CASE mode = "hex" -> parse_hex(input_str)
         [] mode = "dec" -> parse_dec(input_str)
         [] mode = "bin" -> parse_bin(input_str)
         [] OTHER -> None

(* ------------------------ convert_to_bytes ---------------------------- *)
RECURSIVE bytes_loop(_, _)
bytes_loop(value, result) ==
    IF value # Zero
    THEN bytes_loop(Shr(value, 8), Append(result, ToInt(BitAnd(value, FromInt(255)))))
    ELSE result

\* convert_to_bytes without its first two lines, the case of 0
convert_to_bytes_without_zero_case(value) == bytes_loop(value, <<>>)

convert_to_bytes(value) == IF value = Zero THEN <<0>> ELSE bytes_loop(value, <<>>)

(* ------------------------ extract_bit_range --------------------------- *)
\* extract_bit_range with the low bit taken to be start_bit, not the smaller bit
extract_bit_range_low_is_start_bit(value, start_bit, end_bit) ==
    LET width == Abs(end_bit - start_bit) + 1
        mask == Dec(Shl(One, width))
        low == start_bit
        extracted == BitAnd(Shr(value, low), mask)
    IN <<extracted, low, low + width - 1>>

extract_bit_range(value, start_bit, end_bit) ==
    LET width == Abs(end_bit - start_bit) + 1
        mask == Dec(Shl(One, width))
        low == Min(start_bit, end_bit)
        extracted == BitAnd(Shr(value, low), mask)
    IN <<extracted, low, low + width - 1>>

(* -------------------------- display_bytes ----------------------------- *)
\* bits_per_row's default; no caller passes another
BitsPerRow == 16

\* a list that is neither None nor empty
truthy(list) == list # None /\ list # <<>>

Dashes(n) == [k \in 1..n |-> "-"]

\* ''.join('^' if <has reference> and bit != r else ' ' for bit, r in zip(bin_str, ref_str))
diff_marks(bin_str, ref_str, has_ref) ==
    [k \in 1..Min(Len(bin_str), Len(ref_str)) |->
        IF has_ref /\ bin_str[k] # ref_str[k] THEN "^" ELSE " "]

\* one entry of the byte_align loop; i is the zero-based byte index.
\* hex and dec entries carry the byte, not its text.
byte_entry(bytes_list, i, output_format, reference_bytes) ==
    LET b == bytes_list[i + 1]
        has_ref == truthy(reference_bytes) /\ i < Len(reference_bytes)
        bin_str == Format0b(FromInt(b), 8)
        ref_str == IF has_ref THEN Format0b(FromInt(reference_bytes[i + 1]), 8) ELSE Dashes(8)
        diff_str == diff_marks(bin_str, ref_str, has_ref)
    IN IF output_format = "bin"
       THEN [unit |-> "byte", index |-> i, format |-> "bin",
             rows |-> << [labels |-> [j \in 1..8 |-> 7 - (j - 1)],
                          values |-> bin_str, diffs |-> diff_str] >>]
       ELSE [unit |-> "byte", index |-> i, format |-> output_format, value |-> FromInt(b)]

\* (b[3] << 24) | (b[2] << 16) | (b[1] << 8) | b[0]
word_of(b) ==
    BitOr(BitOr(BitOr(Shl(FromInt(b[4]), 24), Shl(FromInt(b[3]), 16)),
                Shl(FromInt(b[2]), 8)), FromInt(b[1]))

\* a slice of at most four bytes, zero-padded to four
pad4(b) == b \o [k \in 1..(4 - Len(b)) |-> 0]

\* the word the dw_align loop assembles at zero-based word index i
dw_word(bytes_list, i) == word_of(pad4(Slice(bytes_list, i * 4, i * 4 + 4)))

\* ref_bytes of the dw_align loop: None, [] or four bytes
dw_ref_bytes(reference_bytes, i) ==
    LET ref_bytes == IF truthy(reference_bytes)
                     THEN Slice(reference_bytes, i * 4, i * 4 + 4) ELSE None
    IN IF truthy(ref_bytes) /\ Len(ref_bytes) < 4 THEN pad4(ref_bytes) ELSE ref_bytes

\* one entry of the dw_align loop; i is the zero-based word index
dw_entry(bytes_list, i, output_format, bits_per_row, reference_bytes) ==
    LET word == dw_word(bytes_list, i)
        ref_bytes == dw_ref_bytes(reference_bytes, i)
        has_ref == truthy(ref_bytes)
        bin_str == Format0b(word, 32)
        ref_str == IF has_ref THEN Format0b(word_of(ref_bytes), 32) ELSE Dashes(32)
        diff_str == diff_marks(bin_str, ref_str, has_ref)
        n_rows == (32 + bits_per_row - 1) \div bits_per_row
        row(r) == LET row_start == (r - 1) * bits_per_row
                      row_bits == Slice(bin_str, row_start, row_start + bits_per_row)
                  IN [labels |-> [j \in 1..Len(row_bits) |-> 31 - (row_start + (j - 1))],
                      values |-> row_bits,
                      diffs |-> Slice(diff_str, row_start, row_start + bits_per_row)]
    IN IF output_format = "bin"
       THEN [unit |-> "dw", index |-> i, format |-> "bin", rows |-> [r \in 1..n_rows |-> row(r)]]
       ELSE [unit |-> "dw", index |-> i, format |-> output_format, value |-> word]

display_bytes(bytes_list, output_format, align_mode, bits_per_row, reference_bytes) ==
    IF align_mode = "byte_align"
    THEN [i \in 1..Len(bytes_list) |->
             byte_entry(bytes_list, i - 1, output_format, reference_bytes)]
         \o << [unit |-> "total", bytes |-> Len(bytes_list)] >>
    ELSE IF align_mode = "dw_align"
    THEN LET word_count == (Len(bytes_list) + 3) \div 4
         IN [i \in 1..word_count |->
                dw_entry(bytes_list, i - 1, output_format, bits_per_row, reference_bytes)]
            \o << [unit |-> "total", bytes |-> Len(bytes_list), words |-> word_count] >>
    ELSE <<>>

(* ------------------------- the global maps ---------------------------- *)
S_opcode == <<"o", "p", "c", "o", "d", "e">>

S_valid == <<"v", "a", "l", "i", "d">>

S_flag == <<"f", "l", "a", "g">>

S_address == <<"a", "d", "d", "r", "e", "s", "s">>

S_immediate == <<"i", "m", "m", "e", "d", "i", "a", "t", "e">>

S_hex == <<"h", "e", "x">>

S_dec == <<"d", "e", "c">>

S_bin == <<"b", "i", "n">>

S_to_hex == <<"t", "o", "_", "h", "e", "x">>

S_to_bin == <<"t", "o", "_", "b", "i", "n">>

S_to_dec == <<"t", "o", "_", "d", "e", "c">>

S_byte_align == <<"b", "y", "t", "e", "_", "a", "l", "i", "g", "n">>

S_dw_align == <<"d", "w", "_", "a", "l", "i", "g", "n">>

S_list == <<"l", "i", "s", "t">>

S_q == <<"q">>

RESERVED_WORDS ==
    {S_hex, S_dec, S_bin, S_to_hex, S_to_bin, S_to_dec, S_byte_align, S_dw_align, S_list, S_q}

\* A dict that is iterated (BIT_FIELD_MAP) is the sequence of its <<key, value>>
\* items in insertion order; d[key] = value keeps the place of a key already there.
dict_index(d, key) == {i \in 1..Len(d) : d[i][1] = key}

dict_set(d, key, value) ==
    IF dict_index(d, key) # {}
    THEN [i \in 1..Len(d) |-> IF d[i][1] = key THEN <<key, value>> ELSE d[i]]
    ELSE Append(d, <<key, value>>)

\* A dict that is only looked up (FIELD_NAME_MAP) is a function on its keys.
EmptyDict == [k \in {} |-> <<>>]

fn_set(f, key, value) == [k \in DOMAIN f \cup {key} |-> IF k = key THEN value ELSE f[k]]

\* {v: k for k, v in d.items()}, merged into f as f.update does
RECURSIVE update_inverted(_, _)
update_inverted(f, d) ==
    IF d = <<>> THEN f ELSE update_inverted(fn_set(f, d[1][2], d[1][1]), Tail(d))

DefaultBitFieldMap ==
    << <<<<8, 12>>, S_opcode>>, <<<<0, 3>>, S_valid>>, <<<<4, 7>>, S_flag>>,
       <<<<16, 23>>, S_address>>, <<<<24, 31>>, S_immediate>> >>

DefaultFieldNameMap == update_inverted(EmptyDict, DefaultBitFieldMap)

(* ------------------------------ state --------------------------------- *)
VARIABLES
    ui,                     \* "cli", "gui", or "gui_unavailable" (-gui without tkinter)
    phase,                  \* "startup" (__main__), "running" (a session), "exited"
    current_input_mode,     \* CLI local / GUI input_mode combobox
    current_output_format,  \* CLI local / GUI output_mode combobox
    current_align_mode,     \* CLI local / GUI align_mode combobox
    last_value,             \* CLI local / GUI last_value['int']
    BIT_FIELD_MAP,
    FIELD_NAME_MAP,
    event,                  \* the input the last handler run read
    out,                    \* what the last handler run printed or showed
    parsed,                 \* history: the value of the last input that parsed
    call                    \* the pure function under check, its arguments and result

session_vars ==
    <<ui, phase, current_input_mode, current_output_format, current_align_mode,
      last_value, BIT_FIELD_MAP, FIELD_NAME_MAP, event, out, parsed>>

vars ==
    <<ui, phase, current_input_mode, current_output_format, current_align_mode,
      last_value, BIT_FIELD_MAP, FIELD_NAME_MAP, event, out, parsed, call>>

NoEvent == [handler |-> "none"]

NoOutput == [kind |-> "none"]

NoCall == [fn |-> "none"]

\* the process before __main__ has run: the module-level maps, no session yet
ModuleLoaded ==
    /\ phase = "startup"
    /\ current_input_mode = "hex"
    /\ current_output_format = "hex"
    /\ current_align_mode = "byte_align"
    /\ last_value = None
    /\ BIT_FIELD_MAP = DefaultBitFieldMap
    /\ FIELD_NAME_MAP = DefaultFieldNameMap
    /\ event = NoEvent
    /\ out = NoOutput
    /\ parsed = None

(* --------------------- the pure functions, called --------------------- *)
\* every text of at most n characters of `chars`
Texts(chars, n) == UNION {[1..k -> chars] : k \in 0..n}

ParseChars == {"1", "f", "F", "g", "_", "'", "h", "b", " "}

\* the bits of a byte, least significant first
BitsOfByte(b) == [k \in 1..8 |-> (b \div 2^(k - 1)) % 2]

\* the value whose little-endian bytes are the pattern (most significant zeros allowed)
RECURSIVE BitsOfBytes(_)
BitsOfBytes(bs) == IF bs = <<>> THEN <<>> ELSE BitsOfByte(bs[1]) \o BitsOfBytes(Tail(bs))

ValueOfBytes(bs) == Norm(BitsOfBytes(bs))

DecomposerBytes == {0, 1, 128, 255}

DecomposerValues == {ValueOfBytes(bs) : bs \in Texts(DecomposerBytes, MaxBytes)}

RendererBytes == {1, 3}

RendererValues == {ValueOfBytes(bs) : bs \in Texts(RendererBytes, MaxBytes)}

ExtractorValues == {Norm(bs) : bs \in Texts({0, 1}, MaxValBits)}

InitParse ==
    /\ ModuleLoaded /\ ui = "cli"
    /\ \E s \in Texts(ParseChars, MaxLen), m \in {"hex", "dec", "bin"} :
          call = [fn |-> "parse_by_mode", input_str |-> s, mode |-> m, done |-> FALSE,
                  result |-> None]

call_parse_by_mode ==
    /\ call.fn = "parse_by_mode" /\ ~call.done
    /\ call' = [call EXCEPT !.done = TRUE,
                            !.result = parse_by_mode(call.input_str, call.mode)]
    /\ UNCHANGED session_vars

SpecParse == InitParse /\ [][call_parse_by_mode]_vars

InitExtract ==
    /\ ModuleLoaded /\ ui = "cli"
    /\ \E v \in ExtractorValues, a \in 0..MaxBit, b \in 0..MaxBit :
          call = [fn |-> "extract_bit_range", value |-> v, start_bit |-> a, end_bit |-> b,
                  done |-> FALSE, result |-> <<>>, swapped |-> <<>>]

\* extract_bit_range(value, a, b), and the same call with the two bits exchanged
call_extract_bit_range ==
    /\ call.fn = "extract_bit_range" /\ ~call.done
    /\ call' = [call EXCEPT
                  !.done = TRUE,
                  !.result = extract_bit_range(call.value, call.start_bit, call.end_bit),
                  !.swapped = extract_bit_range(call.value, call.end_bit, call.start_bit)]
    /\ UNCHANGED session_vars

SpecExtract == InitExtract /\ [][call_extract_bit_range]_vars

InitBytes ==
    /\ ModuleLoaded /\ ui = "cli"
    /\ \E v \in DecomposerValues :
          call = [fn |-> "convert_to_bytes", value |-> v, done |-> FALSE,
                  result |-> <<>>, shown |-> <<>>]

\* convert_to_bytes(value), and its bytes as display_bytes groups them in dw_align
call_convert_to_bytes ==
    /\ call.fn = "convert_to_bytes" /\ ~call.done
    /\ LET bytes_list == convert_to_bytes(call.value)
       IN call' = [call EXCEPT
                     !.done = TRUE,
                     !.result = bytes_list,
                     !.shown = display_bytes(bytes_list, "hex", "dw_align", BitsPerRow, None)]
    /\ UNCHANGED session_vars

SpecBytes == InitBytes /\ [][call_convert_to_bytes]_vars

InitRender ==
    /\ ModuleLoaded /\ ui = "cli"
    /\ \E a \in RendererValues, b \in RendererValues, m \in {"byte_align", "dw_align"} :
          call = [fn |-> "display_bytes", val1 |-> a, val2 |-> b, align_mode |-> m,
                  done |-> FALSE, result |-> <<>>]

\* the rendering of a compare: val1's bytes against val2's, in binary
call_display_bytes ==
    /\ call.fn = "display_bytes" /\ ~call.done
    /\ call' = [call EXCEPT
                  !.done = TRUE,
                  !.result = display_bytes(convert_to_bytes(call.val1), "bin", call.align_mode,
                                           BitsPerRow, convert_to_bytes(call.val2))]
    /\ UNCHANGED session_vars

SpecRender == InitRender /\ [][call_display_bytes]_vars

(* ---------------------------- the sessions ---------------------------- *)
\* the names of the modes, as the commands and the code's literals write them
mode_of(word) ==
    CASE word = S_hex -> "hex" [] word = S_dec -> "dec" [] word = S_bin -> "bin"
      [] word = S_byte_align -> "byte_align" [] word = S_dw_align -> "dw_align"

\* int(text) of a short decimal text
int_of(text) == ToInt(int_dec(text, Zero))

\* re.fullmatch(prefix + r"\d+-\d+", s)
range_match(s, prefix) ==
    LET p == Len(prefix)
        d1 == RunLen(s, p + 1, Digits)
        d2 == RunLen(s, p + d1 + 2, Digits)
    IN /\ Len(s) >= p /\ SubSeq(s, 1, p) = prefix
       /\ d1 >= 1
       /\ p + d1 + 1 <= Len(s) /\ s[p + d1 + 1] = "-"
       /\ d2 >= 1 /\ p + d1 + 1 + d2 = Len(s)

\* the two integers of a text that range_match accepts
range_bits(s, prefix) ==
    LET p == Len(prefix)
        d1 == RunLen(s, p + 1, Digits)
    IN <<int_of(SubSeq(s, p + 1, p + d1)), int_of(SubSeq(s, p + d1 + 2, Len(s)))>>

NoField == <<>>

\* the three lines an extraction prints: the label's bits and name, the value
extraction(value, start, end, name) ==
    LET r == extract_bit_range(value, start, end)
    IN [kind |-> "extract", extracted |-> r[1], low |-> r[2], high |-> r[3], field |-> name]

\* the lines of the list command and of on_list, in the map's iteration order
list_rows(value) ==
    [i \in 1..Len(BIT_FIELD_MAP) |->
        LET low == BIT_FIELD_MAP[i][1][1]
            high == BIT_FIELD_MAP[i][1][2]
            name == BIT_FIELD_MAP[i][2]
        IN IF value # None
           THEN [name |-> name, extracted |-> extract_bit_range(value, low, high)[1],
                 width |-> Abs(high - low) + 1]
           ELSE [name |-> name, low |-> low, high |-> high]]

\* sorted(d.items(), key=lambda x: x[0][0]): stable, by the first bit of the key
RECURSIVE sorted_items(_)
sorted_items(d) ==
    IF d = <<>> THEN <<>>
    ELSE LET rest == sorted_items(SubSeq(d, 1, Len(d) - 1))
             item == d[Len(d)]
             k == Cardinality({i \in 1..Len(rest) : rest[i][1][1] <= item[1][1]})
         IN SubSeq(rest, 1, k) \o <<item>> \o SubSeq(rest, k + 1, Len(rest))

\* compare_fields with the test written `if f1 and f1 != f2`
compare_fields_when_first_is_set(val1, val2) ==
    LET items == sorted_items(BIT_FIELD_MAP)
        all == [i \in 1..Len(items) |->
                   <<items[i][2],
                     extract_bit_range(val1, items[i][1][1], items[i][1][2])[1],
                     extract_bit_range(val2, items[i][1][1], items[i][1][2])[1]>>]
    IN SelectSeq(all, LAMBDA t : t[2] # Zero /\ t[2] # t[3])

\* the fields a compare reports, as <<name, f1, f2>>, in the order it prints them
compare_fields(val1, val2) ==
    LET items == sorted_items(BIT_FIELD_MAP)
        all == [i \in 1..Len(items) |->
                   <<items[i][2],
                     extract_bit_range(val1, items[i][1][1], items[i][1][2])[1],
                     extract_bit_range(val2, items[i][1][1], items[i][1][2])[1]>>]
    IN SelectSeq(all, LAMBDA t : t[2] # t[3])

\* An output that ends with print(display_bytes(...)) records that call by its
\* arguments; `shown` is the text the call returns.
display_call(bytes_list, output_format, align_mode, reference_bytes) ==
    [bytes_list |-> bytes_list, output_format |-> output_format, align_mode |-> align_mode,
     reference_bytes |-> reference_bytes]

shown(output) ==
    display_bytes(output.display.bytes_list, output.display.output_format,
                  output.display.align_mode, BitsPerRow, output.display.reference_bytes)

\* what a compare prints: the two values, the differing fields, the header, the bytes
compare_output(val1, val2, input_mode, output_format, align_mode) ==
    [kind |-> "compare", val1 |-> val1, val2 |-> val2,
     fields |-> compare_fields(val1, val2),
     header |-> <<input_mode, output_format, align_mode>>,
     display |-> display_call(convert_to_bytes(val1), output_format, align_mode,
                              convert_to_bytes(val2))]

\* what a single value prints: the header and the bytes
result_output(value, input_mode, output_format, align_mode) ==
    [kind |-> "result",
     header |-> <<input_mode, output_format, align_mode>>,
     display |-> display_call(convert_to_bytes(value), output_format, align_mode, None)]

Error(msg) == [kind |-> "error", msg |-> msg]

(* ------------------------- field-map documents ------------------------ *)
JInt(n) == [t |-> "int", v |-> n]

JStr == [t |-> "str"]

JList(elems) == [t |-> "list", v |-> elems]

S_op == <<"o", "p">>

S_fl == <<"f", "l">>

S_aa == <<"a", "a">>

S_ab == <<"a", "b">>

S_bb == <<"b", "b">>

\* a JSONC file as json.loads leaves it: whether it loads, whether it is an object,
\* and the object's items in order
Document(items) == [loads |-> TRUE, object |-> TRUE, items |-> items]

DocReversed ==
    Document(<< <<S_op, JList(<<JInt(7), JInt(2)>>)>>, <<S_fl, JList(<<JInt(4), JInt(5)>>)>> >>)

DocSameRange ==
    Document(<< <<S_aa, JList(<<JInt(0), JInt(3)>>)>>, <<S_ab, JList(<<JInt(0), JInt(3)>>)>> >>)

DocReserved ==
    Document(<< <<S_hex, JList(<<JInt(0), JInt(7)>>)>>, <<S_ab, JList(<<JInt(8), JInt(15)>>)>> >>)

DocBadSecond ==
    Document(<< <<S_aa, JList(<<JInt(0), JInt(3)>>)>>, <<S_bb, JStr>> >>)

DocBadLength ==
    Document(<< <<S_aa, JList(<<JInt(0), JInt(3), JInt(5)>>)>> >>)

DocBadElement ==
    Document(<< <<S_aa, JList(<<JInt(0), JStr>>)>> >>)

DocNotJson == [loads |-> FALSE, object |-> FALSE, items |-> <<>>]

DocNotObject == [loads |-> TRUE, object |-> FALSE, items |-> <<>>]

Documents ==
    {DocReversed, DocSameRange, DocReserved, DocBadSecond, DocBadLength, DocBadElement,
     DocNotJson, DocNotObject}

\* not (not isinstance(v, list) or len(v) != 2 or not all(isinstance(i, int) for i in v))
valid_entry(v) ==
    /\ v.t = "list"
    /\ Len(v.v) = 2
    /\ \A i \in 1..Len(v.v) : v.v[i].t = "int"

\* tuple(v)
tuple(v) == [i \in 1..Len(v.v) |-> v.v[i].v]

\* History: the value of the last input that parsed.  An input of several
\* values parses when each of them does, and its value is the first one's.
parsed_after(inputs, mode) ==
    IF \A i \in 1..Len(inputs) : parse_by_mode(inputs[i], mode) # None
    THEN parse_by_mode(inputs[1], mode)
    ELSE parsed

(* ------------------------------ __main__ ------------------------------ *)
\* load_jsonc: the loaded object, or None for a file that does not load, is
\* no object (json_map.items() raises), or has an entry not of two integers
load_jsonc(doc) ==
    IF doc.loads /\ doc.object /\ \A i \in 1..Len(doc.items) : valid_entry(doc.items[i][2])
    THEN [ok |-> TRUE, json_map |-> doc.items]
    ELSE [ok |-> FALSE, json_map |-> <<>>]

\* for k, v in json_map.items(): BIT_FIELD_MAP[tuple(v)] = k
RECURSIVE store_items(_, _)
store_items(items, bit_field_map) ==
    IF items = <<>> THEN bit_field_map
    ELSE store_items(Tail(items), dict_set(bit_field_map, tuple(items[1][2]), items[1][1]))

\* started without -f
main_without_fieldmap ==
    /\ phase = "startup"
    /\ phase' = "dispatch"
    /\ event' = [handler |-> "main", fieldmap |-> FALSE]
    /\ out' = NoOutput
    /\ UNCHANGED <<ui, current_input_mode, current_output_format, current_align_mode,
                   last_value, BIT_FIELD_MAP, FIELD_NAME_MAP, parsed, call>>

\* started with -f: load_jsonc validates, then the maps are cleared and filled
main_fieldmap(doc) ==
    /\ phase = "startup"
    /\ event' = [handler |-> "main", fieldmap |-> TRUE, doc |-> doc]
    /\ LET loaded == load_jsonc(doc)
       IN IF ~loaded.ok
          THEN /\ phase' = "exited"
               /\ out' = [kind |-> "import_error"]
               /\ UNCHANGED <<BIT_FIELD_MAP, FIELD_NAME_MAP>>
          ELSE /\ phase' = "dispatch"
               /\ out' = [kind |-> "import_ok"]
               /\ BIT_FIELD_MAP' = store_items(loaded.json_map, <<>>)
               /\ FIELD_NAME_MAP' = update_inverted(EmptyDict, BIT_FIELD_MAP')
    /\ UNCHANGED <<ui, current_input_mode, current_output_format, current_align_mode,
                   last_value, parsed, call>>

\* if args.gui: run_gui() if GUI_AVAILABLE else exit(1); else: interactive_loop().
\* Both sessions start with no value; the CLI shows hex, the GUI's output_mode bin.
main_dispatch ==
    /\ phase = "dispatch"
    /\ phase' = IF ui = "gui_unavailable" THEN "exited" ELSE "running"
    /\ event' = [handler |-> "main_dispatch"]
    /\ out' = IF ui = "gui_unavailable" THEN Error("tkinter is not installed") ELSE NoOutput
    /\ current_input_mode' = "hex"
    /\ current_output_format' = IF ui = "gui" THEN "bin" ELSE "hex"
    /\ current_align_mode' = "byte_align"
    /\ last_value' = None
    /\ UNCHANGED <<ui, BIT_FIELD_MAP, FIELD_NAME_MAP, parsed, call>>

(* -------------------------- interactive_loop -------------------------- *)
\* user_input in FIELD_NAME_MAP and user_input not in RESERVED_WORDS
cli_is_field(user_input) ==
    user_input \in DOMAIN FIELD_NAME_MAP /\ user_input \notin RESERVED_WORDS

\* the branch of the loop's if/elif chain that a stripped, lower-cased line takes
cli_branch(user_input) ==
    IF user_input = S_q THEN "quit"
    ELSE IF user_input \in {S_hex, S_dec, S_bin} THEN "input_mode"
    ELSE IF user_input \in {S_to_hex, S_to_bin, S_to_dec} THEN "output_format"
    ELSE IF user_input \in {S_byte_align, S_dw_align} THEN "align_mode"
    ELSE IF user_input = S_list THEN "list"
    ELSE IF range_match(user_input, <<"r">>) THEN "range"
    ELSE IF cli_is_field(user_input) THEN "field"
    ELSE IF Len(split(user_input)) = 2 THEN "compare"
    ELSE IF Len(split(user_input)) = 1 THEN "value"
    ELSE "unrecognized"

\* a line is read: input("Input or Command: ").strip().lower()
cli_reads(line, branch) ==
    /\ phase = "running" /\ ui = "cli"
    /\ cli_branch(lower(strip(line))) = branch
    /\ event' = [handler |-> "interactive_loop", text |-> line]

cli_quit(line) ==
    /\ cli_reads(line, "quit")
    /\ phase' = "exited"
    /\ out' = [kind |-> "exiting"]
    /\ UNCHANGED <<ui, current_input_mode, current_output_format, current_align_mode,
                   last_value, BIT_FIELD_MAP, FIELD_NAME_MAP, parsed, call>>

cli_input_mode(line) ==
    /\ cli_reads(line, "input_mode")
    /\ current_input_mode' = mode_of(lower(strip(line)))
    /\ out' = [kind |-> "input_mode"]
    /\ UNCHANGED <<ui, phase, current_output_format, current_align_mode,
                   last_value, BIT_FIELD_MAP, FIELD_NAME_MAP, parsed, call>>

cli_output_format(line) ==
    /\ cli_reads(line, "output_format")
    /\ LET user_input == lower(strip(line))
       IN current_output_format' = mode_of(Slice(user_input, 3, Len(user_input)))
    /\ out' = [kind |-> "output_format"]
    /\ UNCHANGED <<ui, phase, current_input_mode, current_align_mode,
                   last_value, BIT_FIELD_MAP, FIELD_NAME_MAP, parsed, call>>

cli_align_mode(line) ==
    /\ cli_reads(line, "align_mode")
    /\ current_align_mode' = mode_of(lower(strip(line)))
    /\ out' = [kind |-> "align_mode"]
    /\ UNCHANGED <<ui, phase, current_input_mode, current_output_format,
                   last_value, BIT_FIELD_MAP, FIELD_NAME_MAP, parsed, call>>

cli_list(line) ==
    /\ cli_reads(line, "list")
    /\ out' = [kind |-> "list", rows |-> list_rows(last_value)]
    /\ UNCHANGED <<ui, phase, current_input_mode, current_output_format, current_align_mode,
                   last_value, BIT_FIELD_MAP, FIELD_NAME_MAP, parsed, call>>

cli_range(line) ==
    /\ cli_reads(line, "range")
    /\ LET bits == range_bits(lower(strip(line)), <<"r">>)
       IN out' = IF last_value = None THEN Error("No value parsed yet")
                 ELSE extraction(last_value, bits[1], bits[2], NoField)
    /\ UNCHANGED <<ui, phase, current_input_mode, current_output_format, current_align_mode,
                   last_value, BIT_FIELD_MAP, FIELD_NAME_MAP, parsed, call>>

cli_field(line) ==
    /\ cli_reads(line, "field")
    /\ LET user_input == lower(strip(line))
           bits == FIELD_NAME_MAP[user_input]
       IN out' = IF last_value = None THEN Error("No value parsed yet")
                 ELSE extraction(last_value, bits[1], bits[2], user_input)
    /\ UNCHANGED <<ui, phase, current_input_mode, current_output_format, current_align_mode,
                   last_value, BIT_FIELD_MAP, FIELD_NAME_MAP, parsed, call>>

\* cli_compare with last_value = val1 moved up next to the parse of val1
cli_compare_stores_before_test(line) ==
    /\ cli_reads(line, "compare")
    /\ current_output_format' = "bin"
    /\ LET tokens == split(lower(strip(line)))
           val1 == parse_by_mode(tokens[1], current_input_mode)
           val2 == parse_by_mode(tokens[2], current_input_mode)
       IN /\ parsed' = parsed_after(tokens, current_input_mode)
          /\ IF val1 = None \/ val2 = None
             THEN /\ out' = Error("Invalid input for one or both values")
                  /\ last_value' = IF val1 = None THEN last_value ELSE val1
             ELSE /\ last_value' = val1
                  /\ out' = compare_output(val1, val2, current_input_mode,
                                           current_output_format', current_align_mode)
    /\ UNCHANGED <<ui, phase, current_input_mode, current_align_mode,
                   BIT_FIELD_MAP, FIELD_NAME_MAP, call>>

\* two tokens: the output format becomes bin before either token is parsed
cli_compare(line) ==
    /\ cli_reads(line, "compare")
    /\ current_output_format' = "bin"
    /\ LET tokens == split(lower(strip(line)))
           val1 == parse_by_mode(tokens[1], current_input_mode)
           val2 == parse_by_mode(tokens[2], current_input_mode)
       IN /\ parsed' = parsed_after(tokens, current_input_mode)
          /\ IF val1 = None \/ val2 = None
             THEN /\ out' = Error("Invalid input for one or both values")
                  /\ UNCHANGED last_value
             ELSE /\ last_value' = val1
                  /\ out' = compare_output(val1, val2, current_input_mode,
                                           current_output_format', current_align_mode)
    /\ UNCHANGED <<ui, phase, current_input_mode, current_align_mode,
                   BIT_FIELD_MAP, FIELD_NAME_MAP, call>>

cli_value(line) ==
    /\ cli_reads(line, "value")
    /\ LET tokens == split(lower(strip(line)))
           value == parse_by_mode(tokens[1], current_input_mode)
       IN /\ parsed' = parsed_after(tokens, current_input_mode)
          /\ IF value = None
             THEN /\ out' = Error("Invalid input or reserved word")
                  /\ UNCHANGED last_value
             ELSE /\ last_value' = value
                  /\ out' = result_output(value, current_input_mode, current_output_format,
                                          current_align_mode)
    /\ UNCHANGED <<ui, phase, current_input_mode, current_output_format, current_align_mode,
                   BIT_FIELD_MAP, FIELD_NAME_MAP, call>>

cli_unrecognized(line) ==
    /\ cli_reads(line, "unrecognized")
    /\ out' = Error("Unrecognized input format")
    /\ UNCHANGED <<ui, phase, current_input_mode, current_output_format, current_align_mode,
                   last_value, BIT_FIELD_MAP, FIELD_NAME_MAP, parsed, call>>

(* ------------------------------ run_gui ------------------------------- *)
gui_runs == phase = "running" /\ ui = "gui"

\* a choice in one of the three read-only comboboxes
select_input_mode(m) ==
    /\ gui_runs
    /\ current_input_mode' = m
    /\ event' = [handler |-> "input_mode", choice |-> m]
    /\ out' = NoOutput
    /\ UNCHANGED <<ui, phase, current_output_format, current_align_mode,
                   last_value, BIT_FIELD_MAP, FIELD_NAME_MAP, parsed, call>>

select_output_mode(m) ==
    /\ gui_runs
    /\ current_output_format' = m
    /\ event' = [handler |-> "output_mode", choice |-> m]
    /\ out' = NoOutput
    /\ UNCHANGED <<ui, phase, current_input_mode, current_align_mode,
                   last_value, BIT_FIELD_MAP, FIELD_NAME_MAP, parsed, call>>

select_align_mode(m) ==
    /\ gui_runs
    /\ current_align_mode' = m
    /\ event' = [handler |-> "align_mode", choice |-> m]
    /\ out' = NoOutput
    /\ UNCHANGED <<ui, phase, current_input_mode, current_output_format,
                   last_value, BIT_FIELD_MAP, FIELD_NAME_MAP, parsed, call>>

on_analyze(text) ==
    /\ gui_runs
    /\ event' = [handler |-> "on_analyze", text |-> text]
    /\ LET value == parse_by_mode(strip(text), current_input_mode)
       IN /\ parsed' = parsed_after(<<strip(text)>>, current_input_mode)
          /\ IF value = None
             THEN /\ out' = Error("Invalid input")
                  /\ UNCHANGED last_value
             ELSE /\ last_value' = value
                  /\ out' = result_output(value, current_input_mode, current_output_format,
                                          current_align_mode)
    /\ UNCHANGED <<ui, phase, current_input_mode, current_output_format, current_align_mode,
                   BIT_FIELD_MAP, FIELD_NAME_MAP, call>>

\* output is the local 'bin'; the output_mode combobox is not written
on_compare(text) ==
    /\ gui_runs
    /\ event' = [handler |-> "on_compare", text |-> text]
    /\ LET tokens == split(strip(text))
       IN IF Len(tokens) # 2
          THEN /\ out' = Error("Please enter exactly two values separated by space")
               /\ UNCHANGED <<last_value, parsed>>
          ELSE LET val1 == parse_by_mode(tokens[1], current_input_mode)
                   val2 == parse_by_mode(tokens[2], current_input_mode)
               IN /\ parsed' = parsed_after(tokens, current_input_mode)
                  /\ IF val1 = None \/ val2 = None
                     THEN /\ out' = Error("Invalid input for one or both values")
                          /\ UNCHANGED last_value
                     ELSE /\ last_value' = val1
                          /\ out' = compare_output(val1, val2, current_input_mode, "bin",
                                                   current_align_mode)
    /\ UNCHANGED <<ui, phase, current_input_mode, current_output_format, current_align_mode,
                   BIT_FIELD_MAP, FIELD_NAME_MAP, call>>

\* <Return> in input_entry: on_compare() for two tokens, else on_analyze()
input_entry_return(text) ==
    IF Len(split(strip(text))) = 2 THEN on_compare(text) ELSE on_analyze(text)

on_clear_result ==
    /\ gui_runs
    /\ event' = [handler |-> "on_clear_result"]
    /\ out' = NoOutput
    /\ UNCHANGED <<ui, phase, current_input_mode, current_output_format, current_align_mode,
                   last_value, BIT_FIELD_MAP, FIELD_NAME_MAP, parsed, call>>

\* key in FIELD_NAME_MAP and key not in RESERVED_WORDS, without the second test
gui_is_field_without_reserved_test(key) == key \in DOMAIN FIELD_NAME_MAP

\* key in FIELD_NAME_MAP and key not in RESERVED_WORDS
gui_is_field(key) == key \in DOMAIN FIELD_NAME_MAP /\ key \notin RESERVED_WORDS

on_extract(text) ==
    /\ gui_runs
    /\ event' = [handler |-> "on_extract", text |-> text]
    /\ LET key == strip(text)
           label == IF key \in DOMAIN FIELD_NAME_MAP THEN key ELSE NoField
       IN out' = IF last_value = None THEN Error("No parsed value yet")
                 ELSE IF range_match(key, <<>>)
                 THEN extraction(last_value, range_bits(key, <<>>)[1],
                                 range_bits(key, <<>>)[2], label)
                 ELSE IF gui_is_field(key)
                 THEN extraction(last_value, FIELD_NAME_MAP[key][1],
                                 FIELD_NAME_MAP[key][2], label)
                 ELSE Error("Enter bit range or field name")
    /\ UNCHANGED <<ui, phase, current_input_mode, current_output_format, current_align_mode,
                   last_value, BIT_FIELD_MAP, FIELD_NAME_MAP, parsed, call>>

on_list ==
    /\ gui_runs
    /\ event' = [handler |-> "on_list"]
    /\ out' = [kind |-> "list", rows |-> list_rows(last_value)]
    /\ UNCHANGED <<ui, phase, current_input_mode, current_output_format, current_align_mode,
                   last_value, BIT_FIELD_MAP, FIELD_NAME_MAP, parsed, call>>

\* the loop of on_load_fieldmap over json_map.items(), entered with the map
\* cleared: the map when the loop ends, and whether it ended by raising
RECURSIVE load_items(_, _)
load_items(items, bit_field_map) ==
    IF items = <<>> THEN [map |-> bit_field_map, raised |-> FALSE]
    ELSE IF ~valid_entry(items[1][2]) THEN [map |-> bit_field_map, raised |-> TRUE]
    ELSE load_items(Tail(items), dict_set(bit_field_map, tuple(items[1][2]), items[1][1]))

\* the file dialog is closed without a file
on_load_fieldmap_cancelled ==
    /\ gui_runs
    /\ event' = [handler |-> "on_load_fieldmap", chosen |-> FALSE]
    /\ out' = NoOutput
    /\ UNCHANGED <<ui, phase, current_input_mode, current_output_format, current_align_mode,
                   last_value, BIT_FIELD_MAP, FIELD_NAME_MAP, parsed, call>>

\* a file is chosen.  open/json.loads raise before the maps are touched; then
\* both maps are cleared, and json_map.items() or an invalid entry raises with
\* BIT_FIELD_MAP as far as the loop got and FIELD_NAME_MAP empty.
on_load_fieldmap(doc) ==
    /\ gui_runs
    /\ event' = [handler |-> "on_load_fieldmap", chosen |-> TRUE, doc |-> doc]
    /\ IF ~doc.loads
       THEN /\ out' = [kind |-> "import_error"]
            /\ UNCHANGED <<BIT_FIELD_MAP, FIELD_NAME_MAP>>
       ELSE IF ~doc.object
       THEN /\ out' = [kind |-> "import_error"]
            /\ BIT_FIELD_MAP' = <<>>
            /\ FIELD_NAME_MAP' = EmptyDict
       ELSE LET loop == load_items(doc.items, <<>>)
            IN /\ BIT_FIELD_MAP' = loop.map
               /\ IF loop.raised
                  THEN /\ out' = [kind |-> "import_error"]
                       /\ FIELD_NAME_MAP' = EmptyDict
                  ELSE /\ out' = [kind |-> "import_ok"]
                       /\ FIELD_NAME_MAP' = update_inverted(EmptyDict, loop.map)
    /\ UNCHANGED <<ui, phase, current_input_mode, current_output_format, current_align_mode,
                   last_value, parsed, call>>

(* --------------------------- what users type -------------------------- *)
SessionModes == {"hex", "bin"}

\* The sessions' users work in the hex and bin modes (dec is parsed in SpecParse).
CliLines ==
    {S_q, S_hex, S_bin, S_to_hex, S_to_bin, S_byte_align, S_dw_align, S_list,
     <<"r", "1", "2", "-", "8">>, <<" ", "R", "0", "-", "3">>,
     S_opcode, S_op, S_ab,
     <<"1", " ", "1", "1">>, <<"1", "1", " ", "z", "z">>,
     <<"8", "'", "h", "F", "F">>, <<"1", "1">>, <<"z", "z">>,
     <<>>, <<"1", " ", "2", " ", "3">>}

GuiTexts ==
    {<<"1", " ", "1", "1">>, <<"1", "1", " ", "z", "z">>,
     <<"8", "'", "h", "F", "F">>, <<"1", "1">>, <<"z", "z">>}

GuiKeys ==
    {S_opcode, S_op, S_ab, S_hex, <<" ", "1", "2", "-", "8">>, <<"z", "z">>}

Init == ModuleLoaded /\ ui \in {"cli", "gui", "gui_unavailable"} /\ call = NoCall

Next ==
    \/ main_without_fieldmap
    \/ \E doc \in Documents : main_fieldmap(doc)
    \/ main_dispatch
    \/ \E line \in CliLines : cli_quit(line)
    \/ \E line \in CliLines : cli_input_mode(line)
    \/ \E line \in CliLines : cli_output_format(line)
    \/ \E line \in CliLines : cli_align_mode(line)
    \/ \E line \in CliLines : cli_list(line)
    \/ \E line \in CliLines : cli_range(line)
    \/ \E line \in CliLines : cli_field(line)
    \/ \E line \in CliLines : cli_compare(line)
    \/ \E line \in CliLines : cli_value(line)
    \/ \E line \in CliLines : cli_unrecognized(line)
    \/ \E m \in SessionModes : select_input_mode(m)
    \/ \E m \in SessionModes : select_output_mode(m)
    \/ \E m \in {"byte_align", "dw_align"} : select_align_mode(m)
    \/ \E text \in GuiTexts : on_analyze(text)
    \/ \E text \in GuiTexts : on_compare(text)
    \/ \E text \in GuiTexts : input_entry_return(text)
    \/ on_clear_result
    \/ \E text \in GuiKeys : on_extract(text)
    \/ on_list
    \/ on_load_fieldmap_cancelled
    \/ \E doc \in Documents : on_load_fieldmap(doc)

Spec == Init /\ [][Next]_vars

(***************************************************************************)
(* The claims                                                              *)
(***************************************************************************)
\* the mark the rendering `text` puts under bit `q` of its unit (byte or word) `index`
MarkAt(text, index, q) ==
    \E e \in 1..Len(text) :
        /\ text[e].unit \in {"byte", "dw"} /\ text[e].index = index
        /\ \E r \in 1..Len(text[e].rows) :
              \E j \in 1..Len(text[e].rows[r].labels) :
                  /\ text[e].rows[r].labels[j] = q
                  /\ text[e].rows[r].diffs[j] = "^"

\* whether the rendering puts a mark under bit position p of the byte sequence
MarkedPosition(text, align_mode, p) ==
    IF align_mode = "byte_align" THEN MarkAt(text, p \div 8, p % 8)
    ELSE MarkAt(text, p \div 32, p % 32)

\* bit p of a byte sequence that has a byte at index p \div 8
BitOfBytes(bs, p) == (bs[(p \div 8) + 1] \div 2^(p % 8)) % 2

\* C4: in the binary rendering of a compare, in byte_align and in dw_align, a
\* bit position carries '^' if and only if the byte sequences of the two values
\* disagree at that position (both have a byte there and the bits differ), for
\* every bit position of the longer of the two sequences.
C4_DiffMarksExactlyDisagreements ==
    (call.fn = "display_bytes" /\ call.done) =>
        LET A == convert_to_bytes(call.val1)
            B == convert_to_bytes(call.val2)
        IN \A p \in 0..(8 * Max(Len(A), Len(B)) - 1) :
              MarkedPosition(call.result, call.align_mode, p)
                  <=> (/\ p \div 8 < Len(A) /\ p \div 8 < Len(B)
                       /\ BitOfBytes(A, p) # BitOfBytes(B, p))

\* C4 read with absent bytes counting as zero bytes: a position is marked if and
\* only if the two values differ in that bit.
C4_DiffMarksExactlyValueBits ==
    (call.fn = "display_bytes" /\ call.done) =>
        \A p \in 0..(8 * Max(Len(convert_to_bytes(call.val1)),
                             Len(convert_to_bytes(call.val2))) - 1) :
            MarkedPosition(call.result, call.align_mode, p)
                <=> (Bit(call.val1, p) # Bit(call.val2, p))

\* C5: when the reference byte sequence is strictly shorter than the primary
\* one, no bit position of a byte index >= len(reference) carries '^', in
\* byte_align and in dw_align, also in the reference's last, partly covered word.
C5_NoMarksBeyondReference ==
    (call.fn = "display_bytes" /\ call.done) =>
        LET A == convert_to_bytes(call.val1)
            B == convert_to_bytes(call.val2)
        IN Len(B) < Len(A) =>
              \A p \in (8 * Len(B))..(8 * Len(A) - 1) :
                  ~MarkedPosition(call.result, call.align_mode, p)

\* C7: extract(v, a, b) = (extracted, low, high) with low = min(a, b),
\* high = max(a, b) and extracted = (v >> low) mod 2^(high-low+1); so it equals
\* extract(v, b, a), a range from bit 0 over all significant bits returns v, a
\* range above them returns 0, and a one-bit range returns that bit.
C7_ExtractIsShiftAndMask ==
    (call.fn = "extract_bit_range" /\ call.done) =>
        LET v == ToInt(call.value)
            a == call.start_bit
            b == call.end_bit
            low == IF a <= b THEN a ELSE b
            high == IF a <= b THEN b ELSE a
            extracted == call.result[1]
        IN /\ call.result[2] = low
           /\ call.result[3] = high
           /\ extracted = Norm(extracted)
           /\ ToInt(extracted) = (v \div 2^low) % 2^(high - low + 1)
           /\ call.swapped = call.result
           /\ (low = 0 /\ v < 2^(high + 1) => extracted = call.value)
           /\ (v < 2^low => extracted = Zero)
           /\ (a = b => ToInt(extracted) = (v \div 2^a) % 2)

\* C7's case: a range given high bit first, inside the value, cutting bits off it
C7_Witness ==
    /\ call.fn = "extract_bit_range" /\ call.done
    /\ call.start_bit > call.end_bit
    /\ call.result[1] # Zero
    /\ call.result[1] # call.value

\* C8: toBytes(v) is a little-endian sequence of bytes of length
\* max(1, ceil(bitLength(v)/8)), [0] for 0 and with a non-zero last byte
\* otherwise, whose sum of bytes[i] * 256^i is v (bit p of v is bit p mod 8 of
\* byte p div 8, and v has no bit beyond the bytes); and the zero-padded 4-byte
\* words dw_align groups it into sum to v as word_i * 2^(32*i).
C8_BytesAndWordsRebuildValue ==
    (call.fn = "convert_to_bytes" /\ call.done) =>
        LET v == call.value
            bytes == call.result
            n_words == (Len(bytes) + 3) \div 4
            word(i) == call.shown[i].value
        IN /\ Len(bytes) = Max(1, (Len(v) + 7) \div 8)
           /\ \A i \in 1..Len(bytes) : bytes[i] \in 0..255
           /\ (v = Zero => bytes = <<0>>)
           /\ (v # Zero => bytes[Len(bytes)] # 0)
           /\ Len(v) <= 8 * Len(bytes)
           /\ \A p \in 0..(8 * Len(bytes) - 1) : Bit(v, p) = BitOfBytes(bytes, p)
           /\ Len(call.shown) = n_words + 1
           /\ \A i \in 1..n_words :
                 /\ call.shown[i].unit = "dw" /\ call.shown[i].index = i - 1
                 /\ Len(word(i)) <= 32
           /\ Len(v) <= 32 * n_words
           /\ \A p \in 0..(32 * n_words - 1) : Bit(v, p) = Bit(word((p \div 32) + 1), p % 32)

\* C8's case: a value of more than one word with a zero byte inside it
C8_Witness ==
    /\ call.fn = "convert_to_bytes" /\ call.done
    /\ Len(call.result) > 4
    /\ \E i \in 1..Len(call.result) : call.result[i] = 0
    /\ Len(call.shown) = 3

\* the digits of a text that is a whole literal: an optional decimal width, the
\* quote, the marker, then digits and underscores with at least one digit; or
\* digits and underscores alone with at least one digit
LiteralDigits(t, marker, digitset) ==
    LET body(s) == /\ \A i \in 1..Len(s) : s[i] \in digitset \cup {"_"}
                   /\ \E i \in 1..Len(s) : s[i] \in digitset
        widths == {k \in 0..(Len(t) - 2) :
                      /\ \A i \in 1..k : t[i] \in Digits
                      /\ t[k + 1] = "'" /\ t[k + 2] = marker
                      /\ body(SubSeq(t, k + 3, Len(t)))}
    IN IF widths # {}
       THEN LET k == CHOOSE k \in widths : TRUE
            IN SelectSeq(SubSeq(t, k + 3, Len(t)), LAMBDA c : c # "_")
       ELSE IF body(t) THEN SelectSeq(t, LAMBDA c : c # "_")
       ELSE NoMatch

\* the number the digits write in the base
RECURSIVE NumberOf(_, _)
NumberOf(digits, base) ==
    IF digits = <<>> THEN 0
    ELSE NumberOf(SubSeq(digits, 1, Len(digits) - 1), base) * base
         + DigitValue(digits[Len(digits)])

\* C9: in hex mode (and in bin mode, with marker b and digits 0/1) parse returns
\* a value only if the whole trimmed, case-folded input is a literal, and then
\* the value its digits write; every other input fails.
C9_ParseAcceptsOnlyWholeLiterals ==
    (call.fn = "parse_by_mode" /\ call.done /\ call.mode \in {"hex", "bin"}) =>
        LET t == lower(strip(call.input_str))
            digits == IF call.mode = "hex"
                      THEN LiteralDigits(t, "h", Digits \cup HexLetters)
                      ELSE LiteralDigits(t, "b", {"0", "1"})
        IN IF digits = NoMatch
           THEN call.result = None
           ELSE /\ call.result # None
                /\ ToInt(call.result) = NumberOf(digits, IF call.mode = "hex" THEN 16 ELSE 2)

\* every whole literal is parsed to the value its digits write
ParseAcceptsWholeLiterals ==
    (call.fn = "parse_by_mode" /\ call.done /\ call.mode \in {"hex", "bin"}) =>
        LET t == lower(strip(call.input_str))
            digits == IF call.mode = "hex"
                      THEN LiteralDigits(t, "h", Digits \cup HexLetters)
                      ELSE LiteralDigits(t, "b", {"0", "1"})
        IN digits # NoMatch =>
              /\ call.result # None
              /\ ToInt(call.result) = NumberOf(digits, IF call.mode = "hex" THEN 16 ELSE 2)
(* ----------------------- the session's properties --------------------- *)
ImportFailed == out.kind = "import_error"

ImportSucceeded == out.kind = "import_ok"

\* C1: an import of a document with an entry that is not a list of two
\* integers (or that is otherwise rejected) fails, on the -f path and in the
\* GUI handler alike, and leaves BIT_FIELD_MAP and FIELD_NAME_MAP exactly as
\* they were before it: every name that had a range still has that range.
C1_FailedImportLeavesMapsUnchanged ==
    [][ImportFailed' =>
          /\ BIT_FIELD_MAP' = BIT_FIELD_MAP
          /\ FIELD_NAME_MAP' = FIELD_NAME_MAP
          /\ \A name \in DOMAIN FIELD_NAME_MAP :
                name \in DOMAIN FIELD_NAME_MAP' /\ FIELD_NAME_MAP'[name] = FIELD_NAME_MAP[name]]_vars

\* C2: after a successful import the registry holds exactly the imported
\* entries: the names of FIELD_NAME_MAP are the document's names, each with the
\* range the document gives it (two names may share a range), and
\* BIT_FIELD_MAP and FIELD_NAME_MAP are inverse to each other.
C2_SuccessfulImportHoldsExactlyTheEntries ==
    ImportSucceeded =>
        LET entries == event.doc.items
        IN /\ DOMAIN FIELD_NAME_MAP = {entries[i][1] : i \in 1..Len(entries)}
           /\ \A i \in 1..Len(entries) : FIELD_NAME_MAP[entries[i][1]] = tuple(entries[i][2])
           /\ \A i \in 1..Len(BIT_FIELD_MAP) :
                 FIELD_NAME_MAP[BIT_FIELD_MAP[i][2]] = BIT_FIELD_MAP[i][1]
           /\ \A name \in DOMAIN FIELD_NAME_MAP :
                 \E i \in 1..Len(BIT_FIELD_MAP) : BIT_FIELD_MAP[i] = <<FIELD_NAME_MAP[name], name>>

\* the low bit of the field called name
low_of(name) ==
    LET i == CHOOSE i \in 1..Len(BIT_FIELD_MAP) : BIT_FIELD_MAP[i][2] = name
    IN Min(BIT_FIELD_MAP[i][1][1], BIT_FIELD_MAP[i][1][2])

\* C3: a compare reports exactly the fields of the map whose extractions from
\* the two values differ, each with both extracted values, in ascending order
\* of the fields' low bits.
C3_CompareReportsDifferingFieldsByLowBit ==
    out.kind = "compare" =>
        LET row(i) == <<BIT_FIELD_MAP[i][2],
                        extract_bit_range(out.val1, BIT_FIELD_MAP[i][1][1], BIT_FIELD_MAP[i][1][2])[1],
                        extract_bit_range(out.val2, BIT_FIELD_MAP[i][1][1], BIT_FIELD_MAP[i][1][2])[1]>>
            differing == {i \in 1..Len(BIT_FIELD_MAP) : row(i)[2] # row(i)[3]}
        IN /\ {out.fields[k] : k \in 1..Len(out.fields)} = {row(i) : i \in differing}
           /\ Len(out.fields) = Cardinality(differing)
           /\ \A k \in 1..(Len(out.fields) - 1) :
                 low_of(out.fields[k][1]) <= low_of(out.fields[k + 1][1])

\* the name a field lookup was asked for: the CLI's whole line, lower-cased,
\* when it is no other command; the GUI's extract text when it is no bit range
LookupAsked ==
    \/ /\ event.handler = "interactive_loop"
       /\ ~range_match(lower(strip(event.text)), <<"r">>)
    \/ /\ event.handler = "on_extract"
       /\ ~range_match(strip(event.text), <<>>)

LookupName == IF event.handler = "interactive_loop" THEN lower(strip(event.text)) ELSE strip(event.text)

\* C6: whatever has been imported, a field lookup for a reserved word, or for
\* a name that FIELD_NAME_MAP does not hold, extracts nothing.
C6_ReservedOrAbsentNamesAreNotExtracted ==
    (LookupAsked /\ (LookupName \in RESERVED_WORDS \/ LookupName \notin DOMAIN FIELD_NAME_MAP))
        => out.kind # "extract"

\* a reserved word that the imported map holds is looked up with a value present
C6_Witness ==
    /\ event.handler = "on_extract"
    /\ strip(event.text) = S_hex
    /\ S_hex \in DOMAIN FIELD_NAME_MAP
    /\ last_value # None
    /\ out.kind = "error"

\* a bit-range or field extraction is asked for
ExtractionAsked ==
    \/ /\ event.handler = "interactive_loop"
       /\ cli_branch(lower(strip(event.text))) \in {"range", "field"}
    \/ event.handler = "on_extract"

\* the bits an extraction that happened was asked for
AskedBits ==
    LET key == LookupName
    IN IF event.handler = "interactive_loop" /\ range_match(key, <<"r">>) THEN range_bits(key, <<"r">>)
       ELSE IF event.handler = "on_extract" /\ range_match(key, <<>>) THEN range_bits(key, <<>>)
       ELSE FIELD_NAME_MAP[key]

\* C10: the session's value is that of the last input that parsed (the first
\* of the pair for a compare), so an input that fails to parse leaves it alone;
\* an extraction asked for before any input parsed extracts nothing and
\* reports that there is no value; every extraction is taken from that value.
C10_ExtractionUsesLastParsedValue ==
    /\ last_value = parsed
    /\ (ExtractionAsked /\ parsed = None) =>
           out \in {Error("No value parsed yet"), Error("No parsed value yet")}
    /\ out.kind = "extract" =>
           /\ ExtractionAsked
           /\ parsed # None
           /\ out.extracted = extract_bit_range(parsed, AskedBits[1], AskedBits[2])[1]

\* a compare whose first value parses and whose second does not is refused
\* while the session holds another value, which it keeps
C10_Witness ==
    /\ event.handler = "interactive_loop"
    /\ Len(split(lower(strip(event.text)))) = 2
    /\ parse_by_mode(split(lower(strip(event.text)))[1], current_input_mode) \notin {None, parsed}
    /\ out = Error("Invalid input for one or both values")
    /\ parsed # None
    /\ last_value = parsed
\* what the session's compare reports for the two values in the other order
SwappedFields == compare_fields(out.val2, out.val1)

\* C11: a compare of a and b and the compare of b and a report the same field
\* names in the same order, and each field's pair of values in the one is the
\* swapped pair of the other.
C11_CompareIsSymmetric ==
    out.kind = "compare" =>
        /\ Len(SwappedFields) = Len(out.fields)
        /\ \A k \in 1..Len(out.fields) :
              SwappedFields[k] = <<out.fields[k][1], out.fields[k][3], out.fields[k][2]>>

\* a compare that reported two fields, one of them zero in the first value
C11_Witness ==
    /\ out.kind = "compare"
    /\ Len(out.fields) >= 2
    /\ \E k \in 1..Len(out.fields) : out.fields[k][2] = Zero /\ out.fields[k][3] # Zero

\* e is a two-value input: a CLI line of two tokens, or the GUI's on_compare
\* with two tokens in the entry
TwoValueInput(e) ==
    \/ /\ e.handler = "interactive_loop"
       /\ cli_branch(lower(strip(e.text))) = "compare"
    \/ /\ e.handler = "on_compare"
       /\ Len(split(strip(e.text))) = 2

\* whether both tokens of the two-value input e parse in mode
BothParse(e, mode) ==
    LET tokens == split(lower(strip(e.text)))
    IN parse_by_mode(tokens[1], mode) # None /\ parse_by_mode(tokens[2], mode) # None

\* C12: a two-value input leaves the session's input mode, output format and
\* alignment mode as they were, whether or not its values parse (binary is
\* forced for its own rendering only); it changes last_value at most, and
\* only when both values parse.
C12_CompareLeavesSettingsUnchanged ==
    [][TwoValueInput(event') =>
          /\ current_input_mode' = current_input_mode
          /\ current_output_format' = current_output_format
          /\ current_align_mode' = current_align_mode
          /\ BIT_FIELD_MAP' = BIT_FIELD_MAP /\ FIELD_NAME_MAP' = FIELD_NAME_MAP
          /\ (last_value' # last_value => BothParse(event', current_input_mode))
          /\ (out'.kind = "compare" => out'.display.output_format = "bin")]_vars
====
